---- MODULE Spec2Model ----
(***************************************************************************)
(* Model of the outreach-service authentication / authorization pipeline: *)
(* AuthLoggerMiddleware -> JwtAuthGuard (passport-jwt + SupabaseStrategy)  *)
(* -> RolesGuard -> route handler.                                         *)
(*                                                                         *)
(* The repository holds two RolesGuard files, two SupabaseStrategy files   *)
(* and two AuthLoggerMiddleware classes; the variables rolesGuardFile,     *)
(* strategyFile and middlewareFile say which of them a build wires in.     *)
(***************************************************************************)
EXTENDS Integers, Sequences, FiniteSets

VARIABLES
    nodeEnv,         \* configService.get('NODE_ENV')
    rolesGuardFile,  \* which RolesGuard source the build uses
    strategyFile,    \* which SupabaseStrategy source the build uses
    middlewareFile,  \* which AuthLoggerMiddleware class the build uses
    pc,              \* position of the current request in the pipeline
    route,           \* [jwtGuard, required]: the guards and @Roles of the route
    token,           \* the bearer token of the request (or the absence of one)
    now,             \* the clock the verifier compares exp with
    user,            \* request.user
    verified,        \* verification outcome of JwtAuthGuard for this request
    guard,           \* result of RolesGuard.canActivate for this request
    resolved,        \* outcome of the last SupabaseStrategy.validate call
    res,             \* the HTTP outcome of the request
    handlerRuns,     \* how often the route handler ran for this request
    storeQueries,    \* account-store queries issued for this request
    storeAnswer,     \* what the account store answered to the last query
    nextCalls,       \* how often the middleware called next()
    effects,         \* email sends and store writes done by route handlers
    strategySecret,  \* secretOrKey the strategy was constructed with
    served,          \* requests completed so far
    mailPc,          \* position of the current EmailsService call
    mailVia,         \* the method the call enters by
    emails,          \* sendBatchEmailsDto.emails / the sendEmailDto of the call
    batches,         \* sendBatchEmails: the sub-batches of the payload
    batchIndex,      \* sendBatchEmails: index of the batch in hand (from 0)
    retryCount,      \* sendBatchEmails: failed attempts of the batch in hand
    success,         \* sendBatchEmails: the batch in hand has been sent
    sentEmails,      \* sendBatchEmails: the result list
    failedBatches,   \* sendBatchEmails: batches given up
    emailStore,      \* EmailsService.emailStore: Map from id to Email
    attempts,        \* provider send calls made for each batch
    pacingDelays,    \* pacing delays waited so far
    mailNow,         \* Date.now() in ms, advanced by the delays
    mailResult,      \* what the call returned or threw
    providerAnswer,  \* sendEmail: what the provider answered
    tableRows,       \* the rows of the table a create call writes to
    uniqueEmail,     \* whether the table has a unique index on email
    createService,   \* the service whose create is called
    creates          \* the create calls in flight: position, input, outcome

vars == <<nodeEnv, rolesGuardFile, strategyFile, middlewareFile, pc, route, token,
          now, user, verified, guard, resolved, res, handlerRuns, storeQueries,
          storeAnswer, nextCalls, effects, strategySecret, served,
          mailPc, mailVia, emails, batches, batchIndex, retryCount, success,
          sentEmails, failedBatches, emailStore, attempts, pacingDelays, mailNow,
          mailResult, providerAnswer, tableRows, uniqueEmail, createService,
          creates>>

(***************************************************************************)
(* JavaScript values.  A value is a record [t, s, a]: its type tag, its    *)
(* text as a sequence of tokens (strings and numbers), and its elements    *)
(* (arrays).  A JSON text is the token sequence of its serialisation.      *)
(***************************************************************************)
Undefined == [t |-> "undefined", s |-> <<>>, a |-> <<>>]
Null == [t |-> "null", s |-> <<>>, a |-> <<>>]
Obj == [t |-> "object", s |-> <<>>, a |-> <<>>]
Str(toks) == [t |-> "string", s |-> toks, a |-> <<>>]
Num(tok) == [t |-> "number", s |-> <<tok>>, a |-> <<>>]
Arr(elems) == [t |-> "array", s |-> <<>>, a |-> elems]

\* AccountRoles (role.enum): the role tags the routes and the strategy use.
ADMIN == Str(<<"ADMIN">>)
ORGANIZER == Str(<<"ORGANIZER">>)
USER == Str(<<"USER">>)

\* JavaScript truthiness: undefined, null, '' and 0 are falsy.
Truthy(v) ==
    CASE v.t \in {"undefined", "null"} -> FALSE
      [] v.t = "string" -> v.s # <<>>
      [] v.t = "number" -> v.s # <<"0">>
      [] OTHER -> TRUE

IsArray(v) == v.t = "array"

\* String(v): a string is itself, an array is its elements joined by ','
\* (null and undefined elements give ''), an object is '[object Object]'.
RECURSIVE JsString(_)
RECURSIVE Join(_, _)
Join(elems, i) ==
    IF i > Len(elems) THEN <<>>
    ELSE LET e == elems[i]
             head == IF e.t \in {"undefined", "null"} THEN <<>> ELSE JsString(e)
         IN  IF i = Len(elems) THEN head ELSE head \o <<",">> \o Join(elems, i + 1)

JsString(v) ==
    CASE v.t = "string" -> v.s
      [] v.t = "number" -> v.s
      [] v.t = "null" -> <<"null">>
      [] v.t = "undefined" -> <<"undefined">>
      [] v.t = "array" -> Join(v.a, 1)
      [] OTHER -> <<"[object Object]">>

\* The quoted-string and number tokens of JSON texts, and what they denote.
QuotedTokens == {"\"ADMIN\"", "\"ORGANIZER\"", "\"USER\""}
Unquote(tk) ==
    CASE tk = "\"ADMIN\"" -> "ADMIN"
      [] tk = "\"ORGANIZER\"" -> "ORGANIZER"
      [] OTHER -> "USER"
NumTokens == {"0", "5"}

\* JSON.parse(v): v is converted to a string and parsed as one JSON value;
\* anything else is a SyntaxError.
ParseFail == [ok |-> FALSE, v |-> Undefined, next |-> 0]
ParseOk(v, next) == [ok |-> TRUE, v |-> v, next |-> next]

RECURSIVE ParseValue(_, _)
RECURSIVE ParseElems(_, _, _)
ParseValue(toks, i) ==
    IF i > Len(toks) THEN ParseFail
    ELSE LET tk == toks[i] IN
         CASE tk = "null" -> ParseOk(Null, i + 1)
           [] tk \in NumTokens -> ParseOk(Num(tk), i + 1)
           [] tk \in QuotedTokens -> ParseOk(Str(<<Unquote(tk)>>), i + 1)
           [] tk = "{}" -> ParseOk(Obj, i + 1)
           [] tk = "[" ->
                IF i + 1 <= Len(toks) /\ toks[i + 1] = "]"
                THEN ParseOk(Arr(<<>>), i + 2)
                ELSE ParseElems(toks, i + 1, <<>>)
           [] OTHER -> ParseFail

ParseElems(toks, i, acc) ==
    LET r == ParseValue(toks, i) IN
    IF ~r.ok \/ r.next > Len(toks) THEN ParseFail
    ELSE IF toks[r.next] = "]" THEN ParseOk(Arr(Append(acc, r.v)), r.next + 1)
    ELSE IF toks[r.next] = "," THEN ParseElems(toks, r.next + 1, Append(acc, r.v))
    ELSE ParseFail

JSONParse(v) ==
    LET toks == JsString(v)
        r == ParseValue(toks, 1)
    IN  IF r.ok /\ r.next = Len(toks) + 1
        THEN [threw |-> FALSE, v |-> r.v]
        ELSE [threw |-> TRUE, v |-> Undefined]

\* arr.includes(x): SameValueZero, no conversion.
Includes(arr, x) == \E i \in 1..Len(arr.a) : arr.a[i] = x

(***************************************************************************)
(* request.user: a record [t, sub, user_id, email, user_roles, name].      *)
(* t is "undefined" (never set), "object", or "string" (a non-object);     *)
(* the fields of a non-object all read as undefined.                       *)
(***************************************************************************)
UserOf(t, sub, uid, email, roles, name) ==
    [t |-> t, sub |-> sub, user_id |-> uid, email |-> email, user_roles |-> roles,
     name |-> name]
NoUser == UserOf("undefined", Undefined, Undefined, Undefined, Undefined, Undefined)
UserTruthy(u) == u.t # "undefined"

(***************************************************************************)
(* RolesGuard.canActivate.  The result records the decision, the           *)
(* exception thrown (if any), the message logged at error level (if any)   *)
(* and whether request.user was read.                                      *)
(***************************************************************************)
GuardResult(allow, thrown, logged, readUser) ==
    [allow |-> allow, thrown |-> thrown, logged |-> logged, readUser |-> readUser]
NoGuardResult == GuardResult(FALSE, "none", "none", FALSE)

\* Bug variant: only an absent list counts as "no roles required".
NoRolesRequired_OnlyAbsent(required) == ~Truthy(required)

\* !roles || !roles.length
NoRolesRequired(required) == ~Truthy(required) \/ Len(required.a) = 0

\* src/src/auth/roles.guard.ts: returns false to deny.
HasRoleByString(required, userRoles) ==
    \E i \in 1..Len(userRoles.a) : \E j \in 1..Len(required.a) :
        JsString(required.a[j]) = JsString(userRoles.a[i])

\* Bug variant: the check of user.user_roles is missing.
canActivate_roles_guard_ts_NoRolesCheck(required, u) ==
    IF NoRolesRequired(required) THEN GuardResult(TRUE, "none", "none", FALSE)
    ELSE IF ~UserTruthy(u)
    THEN GuardResult(FALSE, "none", "No user object found in request", TRUE)
    ELSE IF HasRoleByString(required, u.user_roles)
    THEN GuardResult(TRUE, "none", "none", TRUE)
    ELSE GuardResult(FALSE, "none", "User lacks required role", TRUE)

canActivate_roles_guard_ts(required, u) ==
    IF NoRolesRequired(required) THEN GuardResult(TRUE, "none", "none", FALSE)
    ELSE IF ~UserTruthy(u)
    THEN GuardResult(FALSE, "none", "No user object found in request", TRUE)
    ELSE IF ~Truthy(u.user_roles) \/ ~IsArray(u.user_roles)
    THEN GuardResult(FALSE, "none", "User has no roles or roles is not an array", TRUE)
    ELSE IF HasRoleByString(required, u.user_roles)
    THEN GuardResult(TRUE, "none", "none", TRUE)
    ELSE GuardResult(FALSE, "none", "User lacks required role", TRUE)

\* src/unnamed/part_009: throws ForbiddenException to deny; ADMIN overrides.
HasRequiredRole(required, userRoles) ==
    \E j \in 1..Len(required.a) : Includes(userRoles, required.a[j])

canActivate_part_009(required, u) ==
    IF NoRolesRequired(required) THEN GuardResult(TRUE, "none", "none", FALSE)
    ELSE IF ~UserTruthy(u) \/ ~Truthy(u.user_roles) \/ ~IsArray(u.user_roles)
    THEN GuardResult(FALSE, "User authentication or role information missing",
                     "No user or user_roles found in request", TRUE)
    ELSE IF Includes(u.user_roles, ADMIN)
    THEN GuardResult(TRUE, "none", "none", TRUE)
    ELSE IF HasRequiredRole(required, u.user_roles)
    THEN GuardResult(TRUE, "none", "none", TRUE)
    ELSE GuardResult(FALSE, "Insufficient permissions to access this resource",
                     "User lacks required roles", TRUE)

RolesGuard_canActivate(file, required, u) ==
    IF file = "roles.guard.ts" THEN canActivate_roles_guard_ts(required, u)
    ELSE canActivate_part_009(required, u)

(***************************************************************************)
(* SupabaseStrategy.validate.  A payload has the shape of request.user;    *)
(* t = "null" is the payload that is not an object.  The account store     *)
(* answers a query with [kind, roles]: the query throws, returns an error, *)
(* returns no row, or returns a row whose roles column holds `roles`.      *)
(***************************************************************************)
OrNull(a, b) == IF Truthy(a) THEN a ELSE IF Truthy(b) THEN b ELSE Null

StoreAnswer(kind, roles) == [kind |-> kind, roles |-> roles]
NoAnswer == StoreAnswer("none", Undefined)

ValidateResult(threw, u, queries, key) ==
    [threw |-> threw, user |-> u, queries |-> queries, key |-> key]
NoValidateResult == ValidateResult(FALSE, NoUser, 0, "none")

\* const enhancedPayload = {...payload, user_id, email, user_roles}
Enhance(payload, userId, email, userRoles) ==
    UserOf("object", payload.sub, userId, email, userRoles, payload.name)

\* src/src/auth/supabase.strategy.ts: looks the account up by email, parses
\* the roles column as JSON, and grants default roles in development.
RolesFromJson(answer) ==
    IF answer.kind # "row" THEN Arr(<<>>)
    ELSE LET parsed == JSONParse(answer.roles) IN
         IF parsed.threw THEN Arr(<<>>) ELSE parsed.v

\* Bug variant: the default roles are granted unless NODE_ENV is 'production'.
DefaultRoles_UnlessProduction(env, userRoles) ==
    IF ~Truthy(userRoles) \/ ~IsArray(userRoles) \/ Len(userRoles.a) = 0
    THEN IF env # "production" THEN Arr(<<ADMIN, ORGANIZER>>) ELSE userRoles
    ELSE userRoles

DefaultRoles(env, userRoles) ==
    IF ~Truthy(userRoles) \/ ~IsArray(userRoles) \/ Len(userRoles.a) = 0
    THEN IF env = "development" THEN Arr(<<ADMIN, ORGANIZER>>) ELSE userRoles
    ELSE userRoles

validate_supabase_strategy_ts(env, payload, answer) ==
    IF payload.t = "null" THEN ValidateResult(TRUE, NoUser, 0, "none")
    ELSE LET userId == OrNull(payload.sub, payload.user_id)
             email == OrNull(payload.email, Null)
             looked == Truthy(email)
             userRoles == IF looked THEN RolesFromJson(answer) ELSE Arr(<<>>)
         IN  ValidateResult(FALSE,
                            Enhance(payload, userId, email, DefaultRoles(env, userRoles)),
                            IF looked THEN 1 ELSE 0,
                            IF looked THEN "email" ELSE "none")

\* src/unnamed/part_008: looks the account up by user id and takes the roles
\* column only when it is a native array.
RolesFromArray(answer) ==
    IF answer.kind = "row" /\ IsArray(answer.roles) THEN answer.roles ELSE Arr(<<>>)

validate_part_008(env, payload, answer) ==
    IF payload.t = "null" THEN ValidateResult(TRUE, NoUser, 0, "none")
    ELSE LET userId == OrNull(payload.sub, payload.user_id)
             email == OrNull(payload.email, Null)
             looked == Truthy(userId)
             userRoles == IF looked THEN RolesFromArray(answer) ELSE Arr(<<>>)
         IN  ValidateResult(FALSE,
                            Enhance(payload, userId, email, userRoles),
                            IF looked THEN 1 ELSE 0,
                            IF looked THEN "user_id" ELSE "none")

SupabaseStrategy_validate(file, env, payload, answer) ==
    IF file = "supabase.strategy.ts"
    THEN validate_supabase_strategy_ts(env, payload, answer)
    ELSE validate_part_008(env, payload, answer)

(***************************************************************************)
(* Tokens and their verification.  A token is [form, secret, exp,          *)
(* payload]: form "none" is a request without bearer token, "malformed" a  *)
(* token that is no three-part JWT, "jwt" a well-formed JWT signed with    *)
(* `secret` and expiring at `exp`.                                         *)
(***************************************************************************)
TokenOf(form, secret, exp, payload) ==
    [form |-> form, secret |-> secret, exp |-> exp, payload |-> payload]

\* NODE_ENV === 'development' ? DEV_JWT_SECRET : PROD_JWT_SECRET
SecretFor(env) == IF env = "development" THEN "DEV_JWT_SECRET" ELSE "PROD_JWT_SECRET"

\* Bug variant: ignoreExpiration: true.
JwtVerify_IgnoreExpiration(tok, secret, clock) ==
    IF tok.form # "jwt" THEN [ok |-> FALSE, error |-> "jwt malformed"]
    ELSE IF tok.secret # secret THEN [ok |-> FALSE, error |-> "invalid signature"]
    ELSE [ok |-> TRUE, error |-> "none"]

\* jsonwebtoken's verify: the format, then the signature, then the expiry.
JwtVerify(tok, secret, clock) ==
    IF tok.form # "jwt" THEN [ok |-> FALSE, error |-> "jwt malformed"]
    ELSE IF tok.secret # secret THEN [ok |-> FALSE, error |-> "invalid signature"]
    ELSE IF clock >= tok.exp THEN [ok |-> FALSE, error |-> "jwt expired"]
    ELSE [ok |-> TRUE, error |-> "none"]

VerifyResult(by, ok, claims, message) ==
    [by |-> by, ok |-> ok, claims |-> claims, message |-> message]
NoVerifyResult == VerifyResult("none", FALSE, NoUser, "none")

\* AuthService.validateToken: the claims, or null for every failure.
validateToken(tok, env, clock) ==
    LET r == JwtVerify(tok, SecretFor(env), clock) IN
    IF r.ok THEN VerifyResult("validateToken", TRUE, tok.payload, "none")
    ELSE VerifyResult("validateToken", FALSE, NoUser, "null")

\* AuthDebugController.debugToken: what the response says of the verification.
debugTokenVerified(v) ==
    IF v.ok THEN "Token verified successfully" ELSE "Token verification failed"

\* The error that super.canActivate (AuthGuard('jwt')) rejects with.  The
\* strategy reports a missing or unverifiable token with fail(), and
\* handleRequest then throws a fresh UnauthorizedException; an exception of
\* validate is passed on as it is.
AuthGuardError(tok, secret, clock, validated) ==
    IF tok.form = "none" THEN "Unauthorized"
    ELSE IF ~JwtVerify(tok, secret, clock).ok THEN "Unauthorized"
    ELSE IF validated.threw THEN "TypeError"
    ELSE "none"

\* The catch block of JwtAuthGuard.canActivate: error.message.includes(...)
JwtAuthGuardMessage(errorMessage) ==
    IF errorMessage = "jwt expired"
    THEN "Your session has expired. Please login again."
    ELSE IF errorMessage = "invalid signature"
    THEN "Invalid authentication token."
    ELSE "Authentication failed. Please check your credentials."

JwtAuthGuard_canActivate(tok, secret, clock, validated) ==
    LET err == AuthGuardError(tok, secret, clock, validated) IN
    IF err = "none"
    THEN VerifyResult("JwtAuthGuard", TRUE, tok.payload, "none")
    ELSE VerifyResult("JwtAuthGuard", FALSE, NoUser, JwtAuthGuardMessage(err))

(***************************************************************************)
(* HTTP outcome of a request: [status, message].  A guard that returns     *)
(* false makes the framework answer 403 'Forbidden resource'.              *)
(***************************************************************************)
Response(status, message) == [status |-> status, message |-> message]
NoResponse == Response(0, "none")

GuardDenial(g) ==
    Response(403, IF g.thrown = "none" THEN "Forbidden resource" ELSE g.thrown)

(***************************************************************************)
(* The inputs: routes, tokens, payloads, account-store answers.            *)
(***************************************************************************)
MaxRequests == 2
Clock == 2
ExpiryTimes == {Clock - 1, Clock + 1}

RouteOf(name, guards, required) ==
    [name |-> name, guards |-> guards, required |-> required]

\* @UseGuards(JwtAuthGuard, RolesGuard) with @Roles([...]); routes without
\* guards (interested-users signup, auth-debug/debug-token).
Routes ==
    { RouteOf("emails.sendBatchEmails", TRUE, Arr(<<ADMIN, ORGANIZER>>)),
      RouteOf("interestedUsers.findAll", TRUE, Arr(<<ORGANIZER>>)),
      RouteOf("interestedUsers.create", FALSE, Undefined),
      RouteOf("authDebug.debugToken", FALSE, Undefined) }

U1 == Str(<<"u1">>)
E1 == Str(<<"a@hackcc.net">>)

Payloads ==
    { UserOf("object", sub, Undefined, email, roles, Str(<<"Test User">>)) :
        sub \in {Undefined, U1}, email \in {Undefined, E1},
        roles \in {Undefined, Arr(<<ADMIN>>)} }
NullPayload == UserOf("null", Undefined, Undefined, Undefined, Undefined, Undefined)

NoToken == TokenOf("none", "none", 0, NoUser)
Tokens ==
    { NoToken, TokenOf("malformed", "none", 0, NoUser) }
    \cup { TokenOf("jwt", sec, exp, p) :
             sec \in {"DEV_JWT_SECRET", "PROD_JWT_SECRET", "other"},
             exp \in ExpiryTimes, p \in Payloads }
    \cup { TokenOf("jwt", "other", Clock + 1, NullPayload) }

\* What the roles column of an account row may hold: native arrays, JSON
\* texts of arrays, and values that are no collection of role strings.
JsonText(toks) == Str(toks)
StoredRoles ==
    { Arr(<<ADMIN>>), Arr(<<ORGANIZER>>), Arr(<<USER>>), Arr(<<>>),
      Arr(<<Num("5")>>), Null, Undefined, Num("5"), Obj, ADMIN,
      JsonText(<<"[", "\"ADMIN\"", "]">>),
      JsonText(<<"[", "\"ORGANIZER\"", "]">>),
      JsonText(<<"[", "\"USER\"", ",", "\"ORGANIZER\"", "]">>),
      JsonText(<<"[", "]">>),
      JsonText(<<"[", "\"ADMIN\"">>),
      JsonText(<<"[", "[", "\"ADMIN\"", "]", "]">>),
      JsonText(<<"\"ADMIN\"">>),
      JsonText(<<"5">>),
      JsonText(<<"{}">>),
      JsonText(<<"null">>) }

StoreAnswers ==
    { StoreAnswer("throws", Undefined), StoreAnswer("error", Undefined),
      StoreAnswer("norow", Undefined) }
    \cup { StoreAnswer("row", r) : r \in StoredRoles }

(***************************************************************************)
(* The request pipeline.                                                   *)
(***************************************************************************)
Envs == {"development", "production", "unset"}
RolesGuardFiles == {"roles.guard.ts", "part_009"}
StrategyFiles == {"supabase.strategy.ts", "part_008"}
MiddlewareFiles == {"logging", "enriching"}

\* The state of the create calls, and its value while none is modelled.
signup == <<tableRows, uniqueEmail, createService, creates>>

SignupIdle ==
    /\ tableRows = <<>>
    /\ uniqueEmail = FALSE
    /\ createService = "none"
    /\ creates = <<>>

build == <<nodeEnv, rolesGuardFile, strategyFile, middlewareFile, strategySecret, now>>

\* The state of EmailsService, and its value while no call is modelled.
mail == <<mailPc, mailVia, emails, batches, batchIndex, retryCount, success,
          sentEmails, failedBatches, emailStore, attempts, pacingDelays, mailNow,
          mailResult, providerAnswer>>

NoMailResult ==
    [kind |-> "none", status |-> 0, message |-> <<>>, value |-> <<>>, carries |-> {}]
NoProviderAnswer == [outcome |-> "none", message |-> "none"]

MailFields ==
    /\ batches = <<>>
    /\ batchIndex = 0
    /\ retryCount = 0
    /\ success = FALSE
    /\ sentEmails = <<>>
    /\ failedBatches = 0
    /\ emailStore = {}
    /\ attempts = <<>>
    /\ pacingDelays = 0
    /\ mailNow = 0
    /\ mailResult = NoMailResult
    /\ providerAnswer = NoProviderAnswer

MailIdle ==
    /\ mailPc = "idle"
    /\ mailVia = "none"
    /\ emails = <<>>
    /\ MailFields

\* The Authorization header: debug-token carries its token in the body.
Bearer == IF route.name = "authDebug.debugToken" THEN NoToken ELSE token

Init ==
    /\ nodeEnv \in Envs
    /\ rolesGuardFile \in RolesGuardFiles
    /\ strategyFile \in StrategyFiles
    /\ middlewareFile \in MiddlewareFiles
    /\ strategySecret = SecretFor(nodeEnv)
    /\ now = Clock
    /\ pc = "idle"
    /\ route = RouteOf("interestedUsers.create", FALSE, Undefined)
    /\ token = NoToken
    /\ user = NoUser
    /\ verified = NoVerifyResult
    /\ guard = NoGuardResult
    /\ resolved = NoValidateResult
    /\ res = NoResponse
    /\ handlerRuns = 0
    /\ storeQueries = 0
    /\ storeAnswer = NoAnswer
    /\ nextCalls = 0
    /\ effects = 0
    /\ served = 0
    /\ SignupIdle
    /\ MailIdle

\* A request for a route arrives with a token.
Arrive ==
    /\ pc = "idle"
    /\ served < MaxRequests
    /\ \E r \in Routes, t \in Tokens : route' = r /\ token' = t
    /\ pc' = "middleware"
    /\ UNCHANGED <<build, signup, mail, user, verified, guard, resolved, res, handlerRuns,
                   storeQueries, storeAnswer, nextCalls, effects, served>>

\* AuthLoggerMiddleware.use, auth.middleware.ts lines 14-97: logs, next().
MiddlewareLogging ==
    /\ pc = "middleware"
    /\ middlewareFile = "logging"
    /\ nextCalls' = nextCalls + 1
    /\ pc' = "jwtGuard"
    /\ UNCHANGED <<build, signup, mail, route, token, user, verified, guard, resolved, res,
                   handlerRuns, storeQueries, storeAnswer, effects, served>>

\* AuthLoggerMiddleware.use, auth.middleware.ts lines 133-267: decodes the
\* payload of a three-part bearer token without verifying it, calls
\* SupabaseStrategy.validate on it and stores the result in request.user.
MiddlewareEnriching ==
    /\ pc = "middleware"
    /\ middlewareFile = "enriching"
    /\ IF Bearer.form = "jwt"
       THEN \E answer \in StoreAnswers :
              LET r == SupabaseStrategy_validate(strategyFile, nodeEnv,
                                                 Bearer.payload, answer)
              IN  /\ resolved' = r
                  /\ user' = IF r.threw THEN user ELSE r.user
                  /\ storeQueries' = storeQueries + r.queries
                  /\ storeAnswer' = IF r.queries > 0 THEN answer ELSE NoAnswer
       ELSE UNCHANGED <<resolved, user, storeQueries, storeAnswer>>
    /\ nextCalls' = nextCalls + 1
    /\ pc' = "jwtGuard"
    /\ UNCHANGED <<build, signup, mail, route, token, verified, guard, res, handlerRuns,
                   effects, served>>

\* A route without @UseGuards: the handler is next.
NoGuards ==
    /\ pc = "jwtGuard"
    /\ ~route.guards
    /\ pc' = "handler"
    /\ UNCHANGED <<build, signup, mail, route, token, user, verified, guard, resolved, res,
                   handlerRuns, storeQueries, storeAnswer, nextCalls, effects, served>>

\* JwtAuthGuard.canActivate: passport-jwt verifies the bearer token with the
\* strategy's secret, SupabaseStrategy.validate enriches the claims, and the
\* result becomes request.user; a failure is answered 401.
JwtGuardStep ==
    /\ pc = "jwtGuard"
    /\ route.guards
    /\ \E answer \in StoreAnswers :
         LET ok == Bearer.form # "none" /\ JwtVerify(Bearer, strategySecret, now).ok
             validated == IF ok THEN SupabaseStrategy_validate(strategyFile, nodeEnv,
                                                               Bearer.payload, answer)
                          ELSE NoValidateResult
             v == JwtAuthGuard_canActivate(Bearer, strategySecret, now, validated)
         IN  /\ verified' = v
             /\ resolved' = IF ok THEN validated ELSE resolved
             /\ storeQueries' = storeQueries + validated.queries
             /\ storeAnswer' = IF ~ok THEN storeAnswer
                               ELSE IF validated.queries > 0 THEN answer ELSE NoAnswer
             /\ IF v.ok
                THEN /\ user' = validated.user
                     /\ pc' = "rolesGuard"
                     /\ res' = res
                ELSE /\ user' = user
                     /\ pc' = "done"
                     /\ res' = Response(401, v.message)
    /\ UNCHANGED <<build, signup, mail, route, token, guard, handlerRuns, nextCalls, effects, served>>

\* RolesGuard.canActivate on the route's @Roles and request.user.
RolesGuardStep ==
    /\ pc = "rolesGuard"
    /\ LET g == RolesGuard_canActivate(rolesGuardFile, route.required, user) IN
       /\ guard' = g
       /\ IF g.allow
          THEN pc' = "handler" /\ res' = res
          ELSE pc' = "done" /\ res' = GuardDenial(g)
    /\ UNCHANGED <<build, signup, mail, route, token, user, verified, resolved, handlerRuns,
                   storeQueries, storeAnswer, nextCalls, effects, served>>

\* Whether the handler of a route sends email or writes to the store.
HasEffect(r) == r.name \in {"emails.sendBatchEmails", "interestedUsers.create"}

\* The route handler (business logic).
Handler ==
    /\ pc = "handler"
    /\ route.name # "authDebug.debugToken"
    /\ handlerRuns' = handlerRuns + 1
    /\ effects' = IF HasEffect(route) THEN effects + 1 ELSE effects
    /\ res' = Response(200, "ok")
    /\ pc' = "done"
    /\ UNCHANGED <<build, signup, mail, route, token, user, verified, guard, resolved,
                   storeQueries, storeAnswer, nextCalls, served>>

\* AuthDebugController.debugToken: validates the token of the body.
DebugToken ==
    /\ pc = "handler"
    /\ route.name = "authDebug.debugToken"
    /\ handlerRuns' = handlerRuns + 1
    /\ IF token.form = "none"
       THEN verified' = verified /\ res' = Response(201, "No token provided")
       ELSE LET v == validateToken(token, nodeEnv, now) IN
            verified' = v /\ res' = Response(201, debugTokenVerified(v))
    /\ pc' = "done"
    /\ UNCHANGED <<build, signup, mail, route, token, user, guard, resolved, storeQueries, storeAnswer,
                   nextCalls, effects, served>>

\* The response is sent; the next request starts from a fresh request object.
Finish ==
    /\ pc = "done"
    /\ pc' = "idle"
    /\ served' = served + 1
    /\ user' = NoUser
    /\ verified' = NoVerifyResult
    /\ guard' = NoGuardResult
    /\ resolved' = NoValidateResult
    /\ res' = NoResponse
    /\ handlerRuns' = 0
    /\ storeQueries' = 0
    /\ storeAnswer' = NoAnswer
    /\ nextCalls' = 0
    /\ UNCHANGED <<build, signup, mail, route, token, effects>>

Next ==
    \/ Arrive
    \/ MiddlewareLogging
    \/ MiddlewareEnriching
    \/ NoGuards
    \/ JwtGuardStep
    \/ RolesGuardStep
    \/ Handler
    \/ DebugToken
    \/ Finish

Spec == Init /\ [][Next]_vars

(***************************************************************************)
(* RolesGuard.canActivate as a function: every required-role list and      *)
(* every request.user, with the guard as the only step.                    *)
(***************************************************************************)
RequiredLists ==
    { Undefined, Arr(<<>>), Arr(<<ADMIN>>), Arr(<<ORGANIZER>>), Arr(<<USER>>),
      Arr(<<ADMIN, ORGANIZER>>) }

GuardRoleValues ==
    { Undefined, Null, Str(<<>>), ADMIN, Num("5"), Num("0"), Obj,
      Arr(<<>>), Arr(<<ADMIN>>), Arr(<<ORGANIZER>>), Arr(<<USER>>),
      Arr(<<ADMIN, ORGANIZER>>), Arr(<<USER, ORGANIZER>>), Arr(<<USER, ADMIN>>),
      Arr(<<Arr(<<ORGANIZER>>)>>), Arr(<<Arr(<<ADMIN>>)>>), Arr(<<Num("5")>>),
      Arr(<<Null>>) }

GuardUsers ==
    { NoUser, UserOf("string", Undefined, Undefined, Undefined, Undefined, Undefined) }
    \cup { UserOf("object", U1, U1, E1, r, Undefined) : r \in GuardRoleValues }

InitGuard ==
    /\ nodeEnv \in Envs
    /\ rolesGuardFile \in RolesGuardFiles
    /\ strategyFile = "part_008"
    /\ middlewareFile = "logging"
    /\ strategySecret = SecretFor(nodeEnv)
    /\ now = Clock
    /\ pc = "rolesGuard"
    /\ route \in { RouteOf("route", TRUE, r) : r \in RequiredLists }
    /\ token = NoToken
    /\ user \in GuardUsers
    /\ verified = NoVerifyResult
    /\ guard = NoGuardResult
    /\ resolved = NoValidateResult
    /\ res = NoResponse
    /\ handlerRuns = 0
    /\ storeQueries = 0
    /\ storeAnswer = NoAnswer
    /\ nextCalls = 0
    /\ effects = 0
    /\ served = 0
    /\ SignupIdle
    /\ MailIdle

NextGuard == RolesGuardStep

SpecGuard == InitGuard /\ [][NextGuard]_vars

(***************************************************************************)
(* EmailsService (src/src/emails/emails.service.ts): sendEmail and         *)
(* sendBatchEmails, one call at a time, with the provider's answer to      *)
(* each send call chosen freely.                                           *)
(***************************************************************************)
MAX_BATCH_SIZE == 20
MAX_RETRIES == 2
RetryDelayMs == 2000
PacingDelayShortMs == 1000
PacingDelayLongMs == 2000
PacingThreshold == 5
ControllerLimit == 50
MaxBatches == 6

Min(a, b) == IF a < b THEN a ELSE b

\* A SendEmailDto: sender, recipients {name, email}, subject.
Dto(k) == [from |-> "team", to |-> <<[name |-> "r", email |-> k]>>, subject |-> k]
EmailDtos(n) == [k \in 1..n |-> Dto(k)]

\* The list sizes of the calls, up to one more than MaxBatches - 1 full batches.
MailSizes ==
    { 0, 1, MAX_BATCH_SIZE - 1, MAX_BATCH_SIZE, MAX_BATCH_SIZE + 1,
      2 * MAX_BATCH_SIZE + 5, ControllerLimit + 1,
      MAX_BATCH_SIZE * (MaxBatches - 1) + 1 }

\* The item sent to the provider: recipients reduced to their addresses.
ResendBatchItem(dto) ==
    [from |-> dto.from, to |-> [i \in 1..Len(dto.to) |-> dto.to[i].email],
     subject |-> dto.subject]

batchPayload(dtos) == [k \in 1..Len(dtos) |-> ResendBatchItem(dtos[k])]

\* payload.slice(i, j), zero-based and end-exclusive.
Slice(payload, i, j) == SubSeq(payload, i + 1, Min(j, Len(payload)))

\* Bug variant: the slices overlap by one item.
RECURSIVE SplitBatches_Overlap(_, _)
SplitBatches_Overlap(payload, i) ==
    IF i >= Len(payload) THEN <<>>
    ELSE <<Slice(payload, i, i + MAX_BATCH_SIZE + 1)>>
         \o SplitBatches_Overlap(payload, i + MAX_BATCH_SIZE)

\* for (let i = 0; i < batchPayload.length; i += MAX_BATCH_SIZE) batches.push(...)
RECURSIVE SplitBatches(_, _)
SplitBatches(payload, i) ==
    IF i >= Len(payload) THEN <<>>
    ELSE <<Slice(payload, i, i + MAX_BATCH_SIZE)>>
         \o SplitBatches(payload, i + MAX_BATCH_SIZE)

\* Bug variant: the last item of a batch gets no Email entity.
BatchEmails_DropLast(batch, sentLength, clock) ==
    [k \in 1..(Len(batch) - 1) |->
        [id |-> <<"batch", sentLength + (k - 1), clock>>, from |-> batch[k].from,
         to |-> batch[k].to, subject |-> batch[k].subject, status |-> "delivered"]]

\* The Email entities of a batch that was sent:
\* id = `batch-${sentEmails.length + index}-${Date.now()}`.
BatchEmails(batch, sentLength, clock) ==
    [k \in 1..Len(batch) |->
        [id |-> <<"batch", sentLength + (k - 1), clock>>, from |-> batch[k].from,
         to |-> batch[k].to, subject |-> batch[k].subject, status |-> "delivered"]]

\* this.emailStore.set(email.id, email) for every email of a list.
StoreAll(store, list) ==
    { e \in store : \A k \in 1..Len(list) : e.id # list[k].id }
    \cup { list[k] : k \in 1..Len(list) }

\* Bug variant: the same delay before every retry.
RetryDelay_Constant(failedAttempts) == RetryDelayMs

\* const delay = 2000 * retryCount
RetryDelay(failedAttempts) == RetryDelayMs * failedAttempts

\* Bug variant: the short delay whatever the number of batches.
PacingDelay_AlwaysShort(batchCount) == PacingDelayShortMs

\* const delay = batches.length > 5 ? 2000 : 1000
PacingDelay(batchCount) ==
    IF batchCount > PacingThreshold THEN PacingDelayLongMs ELSE PacingDelayShortMs

\* What the provider does with one send call: an answer with data, an answer
\* with an error, an answer without data and error, or an exception.
ProviderOutcomes == {"data", "error", "empty", "throws"}

\* The provider's answers to emails.send: data, an error with its message,
\* neither, or an exception with its message.
ProviderAnswers ==
    { [outcome |-> "data", message |-> "none"],
      [outcome |-> "error", message |-> "Invalid from field"],
      [outcome |-> "error", message |-> "Rate limit exceeded"],
      [outcome |-> "empty", message |-> "none"],
      [outcome |-> "throws", message |-> "fetch failed"] }

\* Bug variant: the cause is dropped.
SendEmailError_Unknown(answer) == <<"Unknown error">>

\* error.message as seen by the catch block of sendEmail.
SendEmailError(answer) ==
    IF answer.outcome = "empty" THEN <<"Failed to send email">> ELSE <<answer.message>>

\* A returned value is the list of Email entities and nothing else; an
\* exception carries its message.
MailReturned(value) ==
    [kind |-> "returned", status |-> 201, message |-> <<>>, value |-> value,
     carries |-> {"sentEmails"}]
MailThrew(status, message) ==
    [kind |-> "threw", status |-> status, message |-> message, value |-> <<>>,
     carries |-> {"message"}]

\* The calls: sendBatchEmails through EmailsController or on the service
\* itself, with a list of each size or without a list, and sendEmail.
InitMail ==
    /\ nodeEnv = "production"
    /\ rolesGuardFile = "part_009"
    /\ strategyFile = "part_008"
    /\ middlewareFile = "logging"
    /\ strategySecret = SecretFor(nodeEnv)
    /\ now = Clock
    /\ pc = "handler"
    /\ route = RouteOf("emails.sendBatchEmails", TRUE, Arr(<<ADMIN, ORGANIZER>>))
    /\ token = NoToken
    /\ user = NoUser
    /\ verified = NoVerifyResult
    /\ guard = NoGuardResult
    /\ resolved = NoValidateResult
    /\ res = NoResponse
    /\ handlerRuns = 0
    /\ storeQueries = 0
    /\ storeAnswer = NoAnswer
    /\ nextCalls = 0
    /\ effects = 0
    /\ served = 0
    /\ SignupIdle
    /\ \/ /\ mailPc = "sendBatchEmails"
          /\ mailVia = "EmailsController.sendBatchEmails"
          /\ emails \in {Undefined} \cup { Arr(EmailDtos(n)) : n \in MailSizes }
       \/ /\ mailPc = "service"
          /\ mailVia = "EmailsService.sendBatchEmails"
          /\ emails \in {Undefined} \cup { Arr(EmailDtos(n)) : n \in MailSizes }
       \/ /\ mailPc = "sendEmail"
          /\ mailVia = "EmailsService.sendEmail"
          /\ emails = Arr(EmailDtos(1))
    /\ MailFields

pipeline == <<build, pc, route, token, user, verified, guard, resolved, res,
              handlerRuns, storeQueries, storeAnswer, nextCalls, effects, served>>

\* EmailsController.sendBatchEmails: at most 50 emails per request.
ControllerSendBatchEmails ==
    /\ mailPc = "sendBatchEmails"
    /\ IF emails.t # "array"
       THEN /\ mailResult' = MailThrew(500, <<"Internal server error">>)
            /\ mailPc' = "done"
       ELSE IF Len(emails.a) > ControllerLimit
       THEN /\ mailResult' = MailThrew(413, <<"Batch size too large. Please limit to 50 emails per request.">>)
            /\ mailPc' = "done"
       ELSE /\ mailResult' = mailResult
            /\ mailPc' = "service"
    /\ UNCHANGED <<pipeline, signup, providerAnswer, mailVia, emails, batches, batchIndex, retryCount, success,
                   sentEmails, failedBatches, emailStore, attempts, pacingDelays, mailNow>>

\* EmailsService.sendBatchEmails up to its loop: the payload and its batches;
\* an input without a list ends in the outer catch block.
StartBatches ==
    /\ mailPc = "service"
    /\ IF emails.t # "array"
       THEN /\ mailResult' = MailThrew(500, <<"Failed to send batch emails: ", "TypeError">>)
            /\ mailPc' = "done"
            /\ UNCHANGED <<batches, attempts>>
       ELSE /\ batches' = SplitBatches(batchPayload(emails.a), 0)
            /\ attempts' = [b \in 1..Len(batches') |-> 0]
            /\ mailPc' = "loop"
            /\ mailResult' = mailResult
    /\ UNCHANGED <<pipeline, signup, providerAnswer, mailVia, emails, batchIndex, retryCount, success,
                   sentEmails, failedBatches, emailStore, pacingDelays, mailNow>>

\* Bug variant: the catch block wraps the retry count around instead of letting
\* it pass MAX_RETRIES, and does not wait.
AttemptBatch_RetryCountWraps ==
    /\ mailPc = "loop"
    /\ batchIndex < Len(batches)
    /\ ~success /\ retryCount <= MAX_RETRIES
    /\ attempts' = [attempts EXCEPT ![batchIndex + 1] = IF @ < 3 THEN @ + 1 ELSE @]
    /\ \E outcome \in ProviderOutcomes :
         IF outcome = "data"
         THEN LET batchEmails == BatchEmails(batches[batchIndex + 1],
                                             Len(sentEmails), mailNow)
              IN  /\ sentEmails' = sentEmails \o batchEmails
                  /\ emailStore' = StoreAll(emailStore, batchEmails)
                  /\ success' = TRUE
                  /\ retryCount' = retryCount
         ELSE /\ retryCount' = (retryCount + 1) % (MAX_RETRIES + 1)
              /\ UNCHANGED <<sentEmails, emailStore, success>>
    /\ UNCHANGED <<pipeline, signup, providerAnswer, mailVia, emails, batches, batchIndex,
                   pacingDelays, mailPc, mailResult, failedBatches, mailNow>>

\* One pass of the while loop: a provider call for the batch in hand, and
\* either its emails recorded, or the catch block with its retry delay or
\* its give-up.
AttemptBatch ==
    /\ mailPc = "loop"
    /\ batchIndex < Len(batches)
    /\ ~success /\ retryCount <= MAX_RETRIES
    /\ attempts' = [attempts EXCEPT ![batchIndex + 1] = @ + 1]
    /\ \E outcome \in ProviderOutcomes :
         IF outcome = "data"
         THEN LET batchEmails == BatchEmails(batches[batchIndex + 1],
                                             Len(sentEmails), mailNow)
              IN  /\ sentEmails' = sentEmails \o batchEmails
                  /\ emailStore' = StoreAll(emailStore, batchEmails)
                  /\ success' = TRUE
                  /\ UNCHANGED <<retryCount, failedBatches, mailNow>>
         ELSE /\ retryCount' = retryCount + 1
              /\ IF retryCount' <= MAX_RETRIES
                 THEN /\ mailNow' = mailNow + RetryDelay(retryCount')
                      /\ failedBatches' = failedBatches
                 ELSE /\ failedBatches' = failedBatches + 1
                      /\ mailNow' = mailNow
              /\ UNCHANGED <<sentEmails, emailStore, success>>
    /\ UNCHANGED <<pipeline, signup, providerAnswer, mailVia, emails, batches, batchIndex, pacingDelays,
                   mailPc, mailResult>>

\* Bug variant: a batch that exhausted its retries aborts the call.
NextBatch_FailFast ==
    /\ mailPc = "loop"
    /\ batchIndex < Len(batches)
    /\ ~(~success /\ retryCount <= MAX_RETRIES)
    /\ IF success
       THEN /\ batchIndex' = batchIndex + 1
            /\ retryCount' = 0
            /\ success' = FALSE
            /\ UNCHANGED <<mailPc, mailResult>>
       ELSE /\ mailPc' = "done"
            /\ mailResult' = MailThrew(500, <<"Failed to send batch emails: ">>)
            /\ UNCHANGED <<batchIndex, retryCount, success>>
    /\ UNCHANGED <<pipeline, signup, providerAnswer, mailVia, emails, batches, sentEmails, failedBatches,
                   emailStore, attempts, mailNow, pacingDelays>>

\* The end of the for-loop body: the pacing delay unless the batch was the
\* last one, then the next batch.
NextBatch ==
    /\ mailPc = "loop"
    /\ batchIndex < Len(batches)
    /\ ~(~success /\ retryCount <= MAX_RETRIES)
    /\ IF batchIndex < Len(batches) - 1
       THEN /\ mailNow' = mailNow + PacingDelay(Len(batches))
            /\ pacingDelays' = pacingDelays + 1
       ELSE UNCHANGED <<mailNow, pacingDelays>>
    /\ batchIndex' = batchIndex + 1
    /\ retryCount' = 0
    /\ success' = FALSE
    /\ UNCHANGED <<pipeline, signup, providerAnswer, mailVia, emails, batches, sentEmails, failedBatches,
                   emailStore, attempts, mailPc, mailResult>>

\* After the loop: return sentEmails.
ReturnSentEmails ==
    /\ mailPc = "loop"
    /\ batchIndex >= Len(batches)
    /\ mailResult' = MailReturned(sentEmails)
    /\ mailPc' = "done"
    /\ UNCHANGED <<pipeline, signup, providerAnswer, mailVia, emails, batches, batchIndex, retryCount, success,
                   sentEmails, failedBatches, emailStore, attempts, pacingDelays, mailNow>>

\* EmailsService.sendEmail: one provider call; the record stored and returned,
\* or InternalServerErrorException.
SendEmail ==
    /\ mailPc = "sendEmail"
    /\ attempts' = <<1>>
    /\ \E answer \in ProviderAnswers :
         /\ providerAnswer' = answer
         /\ IF answer.outcome = "data"
            THEN LET item == ResendBatchItem(emails.a[1])
                     email == [id |-> <<"re", 1>>, from |-> item.from, to |-> item.to,
                               subject |-> item.subject, status |-> "delivered"]
                 IN  /\ emailStore' = StoreAll(emailStore, <<email>>)
                     /\ mailResult' = MailReturned(<<email>>)
            ELSE /\ emailStore' = emailStore
                 /\ mailResult' = MailThrew(500, <<"Failed to send email: ">>
                                                 \o SendEmailError(answer))
    /\ mailPc' = "done"
    /\ UNCHANGED <<pipeline, signup, mailVia, emails, batches, batchIndex, retryCount, success,
                   sentEmails, failedBatches, pacingDelays, mailNow>>

NextMail ==
    \/ ControllerSendBatchEmails
    \/ StartBatches
    \/ AttemptBatch
    \/ NextBatch
    \/ ReturnSentEmails
    \/ SendEmail

SpecMail == InitMail /\ [][NextMail]_vars

\* Every awaited provider call and timer returns: a step that is possible is
\* eventually taken.
SpecMailFair == SpecMail /\ WF_vars(NextMail)


(***************************************************************************)
(* Properties.                                                             *)
(***************************************************************************)
\* RolesGuard.canActivate has run for the request in hand.
GuardActed == guard.allow \/ guard.logged # "none"

\* The route declares at least one required role.
RolesDeclared == route.required.t = "array" /\ Len(route.required.a) > 0

\* v is an array, and x is one of its elements.
ElementOf(x, v) == v.t = "array" /\ \E i \in 1..Len(v.a) : v.a[i] = x

\* v is an array, all of whose elements are strings.
ArrayOfStrings(v) == v.t = "array" /\ \A i \in 1..Len(v.a) : v.a[i].t = "string"

\* Some required role of the route is an element of request.user.user_roles.
SharesRole ==
    \E j \in 1..Len(route.required.a) : ElementOf(route.required.a[j], user.user_roles)

\* C1: whenever the guard has decided on a route with a non-empty required-role
\* list for a request whose user_roles array contains ADMIN, it has allowed.
C1_AdminAlwaysAllowed ==
    (GuardActed /\ RolesDeclared /\ ElementOf(ADMIN, user.user_roles)) => guard.allow

\* C2: whenever the guard has decided on a route with required roles for a
\* request whose user_roles is an array without ADMIN, it has allowed iff some
\* required role is an element of user_roles.
C2_AllowIffSharedRole ==
    (GuardActed /\ RolesDeclared /\ user.user_roles.t = "array"
       /\ ~ElementOf(ADMIN, user.user_roles))
    => (guard.allow <=> SharesRole)

\* C3: whenever the guard has decided on a route without required roles (the
\* metadata absent or an empty list), it has allowed, whatever request.user is,
\* and it has not read request.user.
C3_NoRolesAllows ==
    (GuardActed /\ (route.required = Undefined \/ route.required = Arr(<<>>)))
    => guard.allow /\ ~guard.readUser /\ pc = "handler"

\* C3 witness: an empty @Roles list and no request.user: allowed.
C3_Witness ==
    /\ GuardActed
    /\ route.required = Arr(<<>>)
    /\ user = NoUser
    /\ guard.allow

\* What the two guards report when the identity or its role array is missing.
MissingAuthorizationSignals ==
    { "No user object found in request",
      "User has no roles or roles is not an array",
      "No user or user_roles found in request" }

\* C5: whenever the guard has decided on a route with required roles for a
\* request whose user is absent, or whose user_roles is absent or no array, it
\* has denied, reporting the missing authorization, and the request ended 403.
C5_MissingIdentityDenied ==
    (GuardActed /\ RolesDeclared /\ (user.t = "undefined" \/ user.user_roles.t # "array"))
    => /\ ~guard.allow
       /\ guard.logged \in MissingAuthorizationSignals
       /\ pc = "done"
       /\ res.status = 403

\* C5 witness: a user object whose user_roles is a number, on a route
\* requiring ADMIN, has been denied.
C5_Witness ==
    /\ GuardActed
    /\ route.required = Arr(<<ADMIN>>)
    /\ user.t = "object"
    /\ user.user_roles = Num("5")
    /\ ~guard.allow

\* The bearer token is signed with the secret of the environment and its exp
\* lies in the future.
TokenValid ==
    /\ Bearer.form = "jwt"
    /\ Bearer.secret = (IF nodeEnv = "development" THEN "DEV_JWT_SECRET"
                        ELSE "PROD_JWT_SECRET")
    /\ Bearer.exp > now

\* The kind of deny outcome an HTTP status stands for.
DenyKind(status) ==
    CASE status = 403 -> "forbidden"
      [] status = 401 -> "unauthorized"
      [] OTHER -> "none"

C6_HandlerOnlyAfterGuards ==
    /\ []((route.guards /\ RolesDeclared /\ (pc = "handler" \/ handlerRuns > 0))
            => (TokenValid /\ verified.ok /\ GuardActed /\ guard.allow))
    /\ []((route.guards /\ res.status \in {401, 403}) => handlerRuns = 0)
    /\ [][(route.guards /\ (handlerRuns' > handlerRuns \/ effects' > effects))
            => (TokenValid /\ verified.ok /\ guard.allow /\ pc = "handler")]_vars

\* C6 witness: the batch-email handler ran, after a verified token and an allow.
C6_Witness ==
    /\ route.name = "emails.sendBatchEmails"
    /\ handlerRuns = 1
    /\ verified.ok
    /\ guard.allow

\* The kind of authentication error a user-facing message stands for.
FailureKind(message) ==
    CASE message = "Your session has expired. Please login again." -> "expired"
      [] message = "Invalid authentication token." -> "invalid_signature"
      [] message = "Authentication failed. Please check your credentials." -> "generic"
      [] OTHER -> "none"

\* C7: every completed verification (JwtAuthGuard on the bearer token,
\* AuthService.validateToken on the submitted token) succeeds, returning the
\* token's claims, iff the token is signed with the secret of the environment
\* and not expired; otherwise it fails with the kind of its cause
\* (invalid_signature for a foreign secret, expired for an expired token,
\* generic for anything else), each kind having a user-facing error of its own.
C7_VerificationKinds ==
    verified.by # "none" =>
        LET tok == IF verified.by = "validateToken" THEN token ELSE Bearer
            active == IF nodeEnv = "development" THEN "DEV_JWT_SECRET"
                      ELSE "PROD_JWT_SECRET"
            valid == tok.form = "jwt" /\ tok.secret = active /\ tok.exp > now
            cause == IF tok.form # "jwt" THEN "generic"
                     ELSE IF tok.secret # active THEN "invalid_signature"
                     ELSE "expired"
        IN  /\ verified.ok <=> valid
            /\ verified.ok => verified.claims = tok.payload
            /\ ~verified.ok => FailureKind(verified.message) = cause

\* SupabaseStrategy.validate has been called for the request in hand.
ValidateCalled == resolved.threw \/ resolved.user.t = "object"

\* The roles values that are a collection of role strings, as a native array
\* or as the JSON text of one.
WellFormedStoredRoles ==
    { Arr(<<ADMIN>>), Arr(<<ORGANIZER>>), Arr(<<USER>>), Arr(<<>>),
      JsonText(<<"[", "\"ADMIN\"", "]">>),
      JsonText(<<"[", "\"ORGANIZER\"", "]">>),
      JsonText(<<"[", "\"USER\"", ",", "\"ORGANIZER\"", "]">>),
      JsonText(<<"[", "]">>) }

\* The account lookup of the last validate call failed: the query threw,
\* returned an error or no row, or the row's roles are malformed.
LookupFailed ==
    \/ storeAnswer.kind \in {"throws", "error", "norow"}
    \/ storeAnswer.kind = "row" /\ storeAnswer.roles \notin WellFormedStoredRoles

\* C8: every call of validate completes without raising, and when the account
\* lookup failed the identity it returns has the empty role set.
C8_ValidateNeverFails ==
    ValidateCalled =>
        /\ ~resolved.threw
        /\ LookupFailed => resolved.user.user_roles = Arr(<<>>)

\* C9: every identity returned by validate has a user_roles field that is an
\* array of strings.
C9_RolesAlwaysArrayOfStrings ==
    (ValidateCalled /\ ~resolved.threw) => ArrayOfStrings(resolved.user.user_roles)

\* C10: when the account lookup for a verified identity failed, the role guard
\* denies on every route that requires a role, and the handler never runs.
C10_FailedLookupDenied ==
    (verified.by = "JwtAuthGuard" /\ verified.ok /\ RolesDeclared /\ LookupFailed
       /\ GuardActed)
    => (~guard.allow /\ res.status = 403 /\ handlerRuns = 0)

\* The role strings that occur in the roles column of the matched account row,
\* as elements of a native array or as string tokens of a JSON text.
RolesRead(answer) ==
    IF answer.kind # "row" THEN {}
    ELSE IF answer.roles.t = "array"
    THEN { answer.roles.a[i] : i \in 1..Len(answer.roles.a) }
    ELSE IF answer.roles.t = "string"
    THEN { Str(<<Unquote(answer.roles.s[i])>>) :
             i \in { k \in 1..Len(answer.roles.s) : answer.roles.s[k] \in QuotedTokens } }
         \cup {answer.roles}
    ELSE {}

\* The role strings an identity holds.
RolesHeld(u) ==
    IF u.user_roles.t = "array"
    THEN { u.user_roles.a[i] :
             i \in { k \in 1..Len(u.user_roles.a) : u.user_roles.a[k].t = "string" } }
    ELSE IF u.user_roles.t = "string" THEN {u.user_roles}
    ELSE {}

\* C11: when NODE_ENV is not 'development', every role of an identity returned
\* by validate was read from the matched account row, whatever roles the token
\* itself claims; when the lookup matched no row the identity holds no role,
\* and ['ADMIN', 'ORGANIZER'] is not granted.
C11_NoDefaultRolesOutsideDevelopment ==
    (ValidateCalled /\ ~resolved.threw /\ nodeEnv # "development")
    => /\ RolesHeld(resolved.user) \subseteq RolesRead(storeAnswer)
       /\ storeAnswer.kind # "row" => resolved.user.user_roles = Arr(<<>>)

\* C11 witness: NODE_ENV unset, the account query returned an error, and the
\* identity of a token that claims ADMIN came back with the empty role set.
C11_Witness ==
    /\ nodeEnv = "unset"
    /\ storeAnswer.kind = "error"
    /\ Bearer.payload.user_roles = Arr(<<ADMIN>>)
    /\ ValidateCalled
    /\ resolved.user.user_roles = Arr(<<>>)

\* The call in hand is a sendBatchEmails call on a list of emails.
BatchCall == mailVia # "EmailsService.sendEmail" /\ emails.t = "array"

\* The batches have been formed.
BatchesFormed == BatchCall /\ (mailPc = "loop" \/ mailResult.kind = "returned")

\* The call has ended: it returned or threw.
MailEnded == mailPc = "done"

RECURSIVE Concat(_, _)
Concat(seqs, i) == IF i > Len(seqs) THEN <<>> ELSE seqs[i] \o Concat(seqs, i + 1)

Ceil(n, m) == (n + m - 1) \div m

\* C12: once sendBatchEmails has formed its batches for a list of N emails,
\* there are ceil(N/20) of them, none empty or longer than 20, all but the last
\* of 20, and their concatenation is the list in its order; for N = 0 there is
\* no batch and no provider call.
C12_Partition ==
    BatchesFormed =>
        LET N == Len(emails.a)
            all == Concat(batches, 1)
        IN  /\ Len(batches) = Ceil(N, 20)
            /\ \A b \in 1..Len(batches) :
                 /\ Len(batches[b]) \in 1..20
                 /\ b < Len(batches) => Len(batches[b]) = 20
            /\ Len(all) = N
            /\ \A k \in 1..N : /\ all[k].subject = emails.a[k].subject
                               /\ all[k].to = <<emails.a[k].to[1].email>>
            /\ N = 0 => (attempts = <<>> /\ emailStore = {})

\* C12 witness: 45 emails were split into batches of 20, 20 and 5.
C12_Witness ==
    /\ BatchesFormed
    /\ Len(emails.a) = 45
    /\ Len(batches) = 3
    /\ Len(batches[3]) = 5

\* C13: the failed-batch count changes only by one, in the step in which the
\* third attempt of the batch in hand fails, and that step leaves the
\* dispatcher in its loop; a call that formed batches ends by returning, with
\* every batch attempted at least once.
C13_NoFailFast ==
    /\ [][(retryCount = 2 /\ retryCount' = 3)
            => (failedBatches' = failedBatches + 1 /\ mailPc' = "loop"
                /\ batchIndex' = batchIndex)]_vars
    /\ [][failedBatches' # failedBatches
            => (failedBatches' = failedBatches + 1 /\ retryCount' = 3
                /\ attempts'[batchIndex + 1] = 3)]_vars
    /\ []((BatchCall /\ MailEnded /\ Len(batches) > 0)
            => (mailResult.kind = "returned"
                /\ \A b \in 1..Len(batches) : attempts[b] >= 1))

\* C13 witness: of three batches the first failed three times, and the two
\* later ones were sent.
C13_Witness ==
    /\ MailEnded
    /\ Len(batches) = 3
    /\ attempts[1] = 3
    /\ failedBatches = 1
    /\ attempts[2] >= 1 /\ attempts[3] >= 1
    /\ Len(sentEmails) = 25

\* The emails (by subject, the position in the input) that have a sent record,
\* and those of a batch.
SentSubjects == { sentEmails[k].subject : k \in 1..Len(sentEmails) }
BatchSubjects(b) == { batches[b][k].subject : k \in 1..Len(batches[b]) }

\* C14: the sent list holds delivered records of input emails, in input order,
\* without repetition and with distinct ids; each batch has records for all of
\* its emails or for none; the list only grows: a failed attempt leaves it as
\* it is, and a successful one appends the records of the batch in hand; at
\* the end the batches without records are as many as the failed-batch count,
\* and the list is what the call returns.
C14_SentList ==
    /\ [](BatchesFormed =>
            /\ \A k \in 1..Len(sentEmails) :
                 /\ sentEmails[k].status = "delivered"
                 /\ sentEmails[k].subject \in 1..Len(emails.a)
                 /\ sentEmails[k].to = <<emails.a[sentEmails[k].subject].to[1].email>>
                 /\ k > 1 => sentEmails[k - 1].subject < sentEmails[k].subject
            /\ Cardinality({ sentEmails[k].id : k \in 1..Len(sentEmails) })
                 = Len(sentEmails)
            /\ \A b \in 1..Len(batches) :
                 \/ BatchSubjects(b) \subseteq SentSubjects
                 \/ BatchSubjects(b) \cap SentSubjects = {}
            /\ MailEnded =>
                 /\ Cardinality({ b \in 1..Len(batches) :
                                    BatchSubjects(b) \cap SentSubjects = {} })
                      = failedBatches
                 /\ mailResult.value = sentEmails)
    /\ [][/\ Len(sentEmails') >= Len(sentEmails)
          /\ SubSeq(sentEmails', 1, Len(sentEmails)) = sentEmails
          /\ retryCount' > retryCount => sentEmails' = sentEmails
          /\ (success' /\ ~success) =>
                { sentEmails'[k].subject : k \in (Len(sentEmails) + 1)..Len(sentEmails') }
                  = BatchSubjects(batchIndex + 1)]_vars

\* C14 witness: 45 emails, the second batch failed three times: 25 records,
\* of the first and the third batch.
C14_Witness ==
    /\ MailEnded
    /\ Len(emails.a) = 45
    /\ attempts = <<1, 3, 1>>
    /\ failedBatches = 1
    /\ Len(sentEmails) = 25
    /\ sentEmails[20].subject = 20
    /\ sentEmails[21].subject = 41

\* C15: when a sendBatchEmails call ends with some batches sent and some given
\* up, it has returned (not thrown), and the value it returned carries the
\* failed-batch count alongside the sent list.
C15_PartialFailureVisible ==
    (BatchCall /\ MailEnded /\ failedBatches > 0 /\ Len(sentEmails) > 0)
    => /\ mailResult.kind = "returned"
       /\ mailResult.value = sentEmails
       /\ "failedBatches" \in mailResult.carries

\* C16: when a sendBatchEmails call on a non-empty list ends with every batch
\* given up, it has thrown one dispatch error, after the loop went through
\* all batches.
C16_TotalFailureReported ==
    (BatchCall /\ MailEnded /\ Len(batches) > 0 /\ failedBatches = Len(batches))
    => /\ mailResult.kind = "threw"
       /\ batchIndex = Len(batches)

\* C17: a sendEmail call that has ended made exactly one provider call; if the
\* provider answered with data the call returned the delivered record with
\* the provider's id, and the store holds it; otherwise the call threw an
\* internal error (500) whose message wraps the provider's message, and the
\* store is as it was.
C17_SendEmailOnce ==
    (mailVia = "EmailsService.sendEmail" /\ MailEnded)
    => /\ attempts = <<1>>
       /\ IF providerAnswer.outcome = "data"
          THEN /\ mailResult.kind = "returned"
               /\ Len(mailResult.value) = 1
               /\ mailResult.value[1].status = "delivered"
               /\ mailResult.value[1].id = <<"re", 1>>
               /\ mailResult.value[1].subject = emails.a[1].subject
               /\ emailStore = {mailResult.value[1]}
          ELSE /\ mailResult.kind = "threw"
               /\ mailResult.status = 500
               /\ mailResult.message[1] = "Failed to send email: "
               /\ providerAnswer.outcome \in {"error", "throws"}
                    => mailResult.message[2] = providerAnswer.message
               /\ emailStore = {}

\* C17 witness: the provider answered with an error, and sendEmail threw.
C17_Witness ==
    /\ mailVia = "EmailsService.sendEmail"
    /\ MailEnded
    /\ providerAnswer.outcome = "error"
    /\ mailResult.kind = "threw"
    /\ attempts = <<1>>

\* C18: every EmailsService call reaches its end (it returns or throws), and
\* no batch costs more than 3 provider calls.
C18_Terminates ==
    /\ <>MailEnded
    /\ [](\A b \in 1..Len(attempts) : attempts[b] <= 3)

\* C18 witness: a call whose six batches all failed three times has ended,
\* after 18 provider calls.
C18_Witness ==
    /\ MailEnded
    /\ Len(batches) = MaxBatches
    /\ \A b \in 1..Len(batches) : attempts[b] = 3

\* C19: a sendBatchEmails call that has returned made 1 to 3 provider calls
\* for each batch; a provider call is made only for the batch in hand and only
\* while it has not been sent; a batch is given up only in the step in which
\* its third attempt fails, and that step waits for nothing; a failed first
\* or second attempt is followed by a delay of 2000 ms times the number of
\* failed attempts so far; a successful attempt is followed by no delay.
C19_BatchStateMachine ==
    /\ []((BatchCall /\ MailEnded /\ mailResult.kind = "returned")
            => \A b \in 1..Len(batches) : attempts[b] \in 1..3)
    /\ [][(mailPc = "loop" /\ attempts' # attempts)
            => /\ ~success
               /\ attempts'[batchIndex + 1] = attempts[batchIndex + 1] + 1
               /\ \A b \in 1..Len(batches) :
                    b # batchIndex + 1 => attempts'[b] = attempts[b]
               /\ attempts[batchIndex + 1] = retryCount]_vars
    /\ [][failedBatches' # failedBatches
            => /\ attempts'[batchIndex + 1] = 3
               /\ retryCount = 2 /\ retryCount' = 3
               /\ ~success'
               /\ mailNow' = mailNow]_vars
    /\ [][(mailPc = "loop" /\ retryCount' > retryCount /\ retryCount' < 3)
            => /\ mailNow' - mailNow = 2000 * retryCount'
               /\ failedBatches' = failedBatches]_vars
    /\ [][(success' /\ ~success) => mailNow' = mailNow]_vars

\* C19 witness: of two batches the first was sent at its second attempt and
\* the second was given up after three: delays of 2000, 1000, 2000, 4000 ms.
C19_Witness ==
    /\ MailEnded
    /\ attempts = <<2, 3>>
    /\ failedBatches = 1
    /\ Len(sentEmails) = 20
    /\ mailNow = 9000

\* C20: a pacing delay is waited exactly in the step that moves from a batch
\* to a next one, whether the batch was sent or given up, and not after the
\* last batch; it lasts 1000 ms if the call has at most 5 batches and 2000 ms
\* otherwise; the first attempt of a batch finds as many pacing delays waited
\* as there are batches before it.
C20_Pacing ==
    /\ [][pacingDelays' # pacingDelays
            => /\ pacingDelays' = pacingDelays + 1
               /\ batchIndex' = batchIndex + 1
               /\ batchIndex' < Len(batches)
               /\ mailNow' - mailNow = (IF Len(batches) <= 5 THEN 1000 ELSE 2000)]_vars
    /\ [][(mailPc = "loop" /\ batchIndex' # batchIndex)
            => /\ batchIndex' = batchIndex + 1
               /\ batchIndex' < Len(batches) <=> pacingDelays' = pacingDelays + 1
               /\ batchIndex' >= Len(batches)
                    => (pacingDelays' = pacingDelays /\ mailNow' = mailNow)]_vars
    /\ [][(mailPc = "loop" /\ attempts' # attempts) => pacingDelays = batchIndex]_vars
    /\ []((BatchCall /\ MailEnded /\ mailResult.kind = "returned" /\ Len(batches) > 0)
            => pacingDelays = Len(batches) - 1)

\* C20 witness: six batches, the third given up, the others sent at once:
\* five pacing delays of 2000 ms and the two retry delays of the third batch.
C20_Witness ==
    /\ MailEnded
    /\ attempts = <<1, 1, 3, 1, 1, 1>>
    /\ failedBatches = 1
    /\ pacingDelays = 5
    /\ mailNow = 16000

(***************************************************************************)
(* The role resolver: lookup key, role encodings and the merged identity.  *)
(***************************************************************************)
\* The payload validate was last called on: the claims of the bearer token.
ValidatedPayload == Bearer.payload

\* C21: validate keys the account lookup by the subject when the payload has
\* one, by the email when the subject is absent and the email is present, and
\* makes no lookup, returning the empty role set, when both are absent; each
\* call makes at most one account query, exactly one when a key was chosen.
C21_LookupKey ==
    (ValidateCalled /\ ~resolved.threw) =>
        /\ resolved.queries <= 1
        /\ Truthy(ValidatedPayload.sub) =>
               (resolved.key = "user_id" /\ resolved.queries = 1)
        /\ (~Truthy(ValidatedPayload.sub) /\ Truthy(ValidatedPayload.email)) =>
               (resolved.key = "email" /\ resolved.queries = 1)
        /\ (~Truthy(ValidatedPayload.sub) /\ ~Truthy(ValidatedPayload.email)) =>
               /\ resolved.key = "none"
               /\ resolved.queries = 0
               /\ resolved.user.user_roles = Arr(<<>>)

\* The array of role strings a well-formed roles value stands for: the native
\* array itself, or the array of the strings quoted in the JSON text.
RECURSIVE QuotedStrings(_)
QuotedStrings(toks) ==
    IF toks = <<>> THEN <<>>
    ELSE IF Head(toks) \in QuotedTokens
    THEN <<Str(<<Unquote(Head(toks))>>)>> \o QuotedStrings(Tail(toks))
    ELSE QuotedStrings(Tail(toks))

RoleStringsOf(roles) ==
    IF roles.t = "array" THEN roles ELSE Arr(QuotedStrings(roles.s))

\* C22: for an account row whose roles are a native array of strings, and for
\* one whose roles are the JSON text of the same array, validate returns those
\* strings as the role set; for a roles string that does not parse it returns
\* the empty role set.
C22_DualEncoding ==
    (ValidateCalled /\ ~resolved.threw /\ storeAnswer.kind = "row") =>
        /\ storeAnswer.roles \in WellFormedStoredRoles =>
               resolved.user.user_roles = RoleStringsOf(storeAnswer.roles)
        /\ (storeAnswer.roles.t = "string" /\ JSONParse(storeAnswer.roles).threw) =>
               resolved.user.user_roles = Arr(<<>>)

\* C23: the identity validate returns equals the payload on every key other
\* than user_id, email and user_roles, and its user_roles are the roles the
\* lookup resolved from the matched account row, never the user_roles the
\* token payload carries; that identity is what the role guard reads.
C23_MergeFrame ==
    (ValidateCalled /\ ~resolved.threw) =>
        /\ resolved.user.sub = ValidatedPayload.sub
        /\ resolved.user.name = ValidatedPayload.name
        /\ RolesHeld(resolved.user) \subseteq RolesRead(storeAnswer)
        /\ GuardActed => user = resolved.user

\* C26: the role resolver is called only on the claims of a token the
\* credential verifier has accepted, and request.user is populated only from
\* such a token; the middleware does neither for a three-part bearer token
\* with a forged signature or a past expiry.
C26_ResolutionFollowsVerification ==
    (ValidateCalled \/ user.t = "object" \/ storeQueries > 0) => TokenValid

\* C25: for every required-role list and request identity the RolesGuard of
\* roles.guard.ts and the RolesGuard of part_009 make the same allow/deny
\* decision; they differ only in signalling a deny by returning false or by
\* throwing ForbiddenException.
C25_GuardsAgree ==
    GuardActed =>
        (canActivate_roles_guard_ts(route.required, user).allow
           = canActivate_part_009(route.required, user).allow)

(***************************************************************************)
(* Verification under a changing NODE_ENV.  SupabaseStrategy passes its    *)
(* secretOrKey to passport-jwt in its constructor; AuthService reads the   *)
(* configuration in every validateToken call.                              *)
(***************************************************************************)
InitEnv ==
    /\ nodeEnv \in Envs
    /\ rolesGuardFile = "part_009"
    /\ strategyFile \in StrategyFiles
    /\ middlewareFile = "logging"
    /\ strategySecret = SecretFor(nodeEnv)
    /\ now = Clock
    /\ pc = "idle"
    /\ route = RouteOf("interestedUsers.create", FALSE, Undefined)
    /\ token = NoToken
    /\ user = NoUser
    /\ verified = NoVerifyResult
    /\ guard = NoGuardResult
    /\ resolved = NoValidateResult
    /\ res = NoResponse
    /\ handlerRuns = 0
    /\ storeQueries = 0
    /\ storeAnswer = NoAnswer
    /\ nextCalls = 0
    /\ effects = 0
    /\ served = 0
    /\ SignupIdle
    /\ MailIdle

\* process.env.NODE_ENV is given another value between two calls; the
\* strategy object, and with it its secretOrKey, stays as constructed.
SetNodeEnv ==
    /\ \E env \in Envs \ {nodeEnv} : nodeEnv' = env
    /\ token' = NoToken
    /\ verified' = NoVerifyResult
    /\ resolved' = NoValidateResult
    /\ UNCHANGED <<rolesGuardFile, strategyFile, middlewareFile, strategySecret, now,
                   signup,
                   mail, pc, route, user, guard, res, handlerRuns, storeQueries,
                   storeAnswer, nextCalls, effects, served>>

\* JwtAuthGuard.canActivate verifies a bearer token: passport-jwt uses the
\* secretOrKey of the strategy's constructor.
VerifyByJwtAuthGuard ==
    /\ \E t \in Tokens \ {NoToken} :
         LET ok == JwtVerify(t, strategySecret, now).ok
             validated == IF ok
                          THEN SupabaseStrategy_validate(strategyFile, nodeEnv,
                                   t.payload, StoreAnswer("norow", Undefined))
                          ELSE NoValidateResult
         IN  /\ token' = t
             /\ resolved' = validated
             /\ verified' = JwtAuthGuard_canActivate(t, strategySecret, now, validated)
    /\ UNCHANGED <<build, signup, mail, pc, route, user, guard, res, handlerRuns, storeQueries,
                   storeAnswer, nextCalls, effects, served>>

\* AuthService.validateToken verifies a token: the secret is read from the
\* configuration in the call.
VerifyByValidateToken ==
    /\ \E t \in Tokens \ {NoToken} :
         /\ token' = t
         /\ verified' = validateToken(t, nodeEnv, now)
    /\ resolved' = NoValidateResult
    /\ UNCHANGED <<build, signup, mail, pc, route, user, guard, res, handlerRuns, storeQueries,
                   storeAnswer, nextCalls, effects, served>>

NextEnv ==
    \/ SetNodeEnv
    \/ VerifyByJwtAuthGuard
    \/ VerifyByValidateToken

SpecEnv == InitEnv /\ [][NextEnv]_vars

\* C24: in every sequence of verification calls and changes of NODE_ENV, each
\* verification uses the secret of the environment in force at that call: the
\* token is accepted exactly when it is a well-formed, unexpired token signed
\* with the secret of the current NODE_ENV.
C24_SecretPerVerification ==
    (verified.by # "none" /\ token.payload # NullPayload) =>
        (verified.ok <=> /\ token.form = "jwt"
                         /\ token.secret = SecretFor(nodeEnv)
                         /\ token.exp > now)

(***************************************************************************)
(* The environment selectors of the constructors.                          *)
(***************************************************************************)
\* SupabaseService: nodeEnv === 'production' ? PRODUCTION : DEVELOPMENT, and
\* getClient returns the client of that environment.
SupabaseService_currentEnvironment(env) ==
    IF env = "production" THEN "production" ELSE "development"

SupabaseService_getClient(env) ==
    IF SupabaseService_currentEnvironment(env) = "production"
    THEN "prodSupabase" ELSE "devSupabase"

\* EmailsService: process.env.NODE_ENV === 'production' ? PROD key : DEV key
ResendApiKeyFor(env) ==
    IF env = "production" THEN "PROD_RESEND_API_KEY" ELSE "DEV_RESEND_API_KEY"

\* The environment a configuration key belongs to.
EnvironmentOfKey(key) ==
    IF key \in {"PROD_JWT_SECRET", "prodSupabase", "PROD_RESEND_API_KEY"}
    THEN "production" ELSE "development"

\* C28: for every value of NODE_ENV the JWT secret used for verification, the
\* account-store client and the email-provider key belong to the same
\* environment; the production secret is never paired with the development
\* store, nor the reverse.
C28_SelectorsAgree ==
    /\ EnvironmentOfKey(strategySecret)
         = EnvironmentOfKey(SupabaseService_getClient(nodeEnv))
    /\ EnvironmentOfKey(SecretFor(nodeEnv))
         = EnvironmentOfKey(SupabaseService_getClient(nodeEnv))
    /\ EnvironmentOfKey(SecretFor(nodeEnv)) = EnvironmentOfKey(ResendApiKeyFor(nodeEnv))

(***************************************************************************)
(* AuthLoggerMiddleware.use path by path.  The Authorization header is a   *)
(* token record whose form names the first test of use it fails: "none"    *)
(* no header, "parts" not two space-separated parts, "scheme" a scheme     *)
(* other than Bearer, "malformed" a token without three parts,             *)
(* "header" and "payload" a part that does not decode to JSON, "jwt" a     *)
(* token whose header and payload decode (whatever its signature).         *)
(***************************************************************************)
HeaderForms == {"none", "parts", "scheme", "malformed", "header", "payload", "jwt"}

MiddlewareHeaders ==
    { TokenOf(f, "none", 0, NoUser) : f \in HeaderForms \ {"jwt"} }
    \cup { TokenOf("jwt", sec, Clock + 1, p) :
             sec \in {"PROD_JWT_SECRET", "other"}, p \in Payloads \cup {NullPayload} }

\* The synchronous part of use: whether validate was called (its promise is
\* pending when use returns) and how often next() was called.
UseResult(validates, calls) == [validates |-> validates, calls |-> calls]

\* Bug variant: no return after the promise chain is set up, so the next()
\* at the end of use runs as well.
use_NoEarlyReturn(header) ==
    UseResult(header.form = "jwt", 1)

use(header) ==
    IF header.form = "none" THEN UseResult(FALSE, 1)
    ELSE IF header.form = "parts" THEN UseResult(FALSE, 1)
    ELSE IF header.form = "scheme" THEN UseResult(FALSE, 1)
    ELSE IF header.form = "malformed" THEN UseResult(FALSE, 1)
    ELSE IF header.form = "header" THEN UseResult(FALSE, 1)
    ELSE IF header.form = "payload" THEN UseResult(FALSE, 1)
    ELSE UseResult(TRUE, 0)

InitUse ==
    /\ nodeEnv \in Envs
    /\ rolesGuardFile = "part_009"
    /\ strategyFile \in StrategyFiles
    /\ middlewareFile \in MiddlewareFiles
    /\ strategySecret = SecretFor(nodeEnv)
    /\ now = Clock
    /\ pc = "middleware"
    /\ route = RouteOf("interestedUsers.findAll", TRUE, Arr(<<ORGANIZER>>))
    /\ token \in MiddlewareHeaders
    /\ user = NoUser
    /\ verified = NoVerifyResult
    /\ guard = NoGuardResult
    /\ resolved = NoValidateResult
    /\ res = NoResponse
    /\ handlerRuns = 0
    /\ storeQueries = 0
    /\ storeAnswer = NoAnswer
    /\ nextCalls = 0
    /\ effects = 0
    /\ served = 0
    /\ SignupIdle
    /\ MailIdle

\* use runs up to its return: either next() has been called, or validate has
\* been called and its promise is pending.
UseReturns ==
    /\ pc = "middleware"
    /\ middlewareFile = "enriching"
    /\ LET r == use(token) IN
       /\ nextCalls' = nextCalls + r.calls
       /\ pc' = IF r.validates THEN "validatePending" ELSE "jwtGuard"
    /\ UNCHANGED <<build, signup, mail, route, token, user, verified, guard, resolved, res,
                   handlerRuns, storeQueries, storeAnswer, effects, served>>

\* The promise of validate settles: then() stores the identity in req.user,
\* catch() logs a rejection, finally() calls next().
ValidateSettles ==
    /\ pc = "validatePending"
    /\ \E answer \in StoreAnswers :
         LET r == SupabaseStrategy_validate(strategyFile, nodeEnv, token.payload, answer)
         IN  /\ resolved' = r
             /\ user' = IF r.threw THEN user ELSE r.user
             /\ storeQueries' = storeQueries + r.queries
             /\ storeAnswer' = IF r.queries > 0 THEN answer ELSE NoAnswer
    /\ nextCalls' = nextCalls + 1
    /\ pc' = "jwtGuard"
    /\ UNCHANGED <<build, signup, mail, route, token, verified, guard, res, handlerRuns,
                   effects, served>>

NextUse ==
    \/ MiddlewareLogging
    \/ UseReturns
    \/ ValidateSettles

SpecUse == InitUse /\ [][NextUse]_vars

\* The event loop runs every pending callback.
SpecUseFair == SpecUse /\ WF_vars(NextUse)

\* C27: AuthLoggerMiddleware.use calls next() exactly once for every request
\* and on every path: next() is never called twice, the request is passed on
\* only by that call, and the call eventually happens.
C27_NextExactlyOnce ==
    /\ [](nextCalls <= 1)
    /\ [](pc = "jwtGuard" <=> nextCalls = 1)
    /\ <>[](nextCalls = 1)

\* C27 witness: validate rejected (the payload decodes to null), nothing was
\* stored in req.user, and next() has been called once from finally().
C27_Witness ==
    /\ middlewareFile = "enriching"
    /\ token.payload = NullPayload
    /\ resolved.threw
    /\ user = NoUser
    /\ nextCalls = 1
    /\ pc = "jwtGuard"

(***************************************************************************)
(* Several sendBatchEmails calls on one EmailsService: emailStore is a     *)
(* field of the service and outlives the call, sentEmails is a local of    *)
(* each call.                                                              *)
(***************************************************************************)
MaxCalls == 2

\* The lists of the calls: one batch, and two batches.
StoreCallSizes == {1, 2, MAX_BATCH_SIZE + 1}

InitStore ==
    /\ nodeEnv = "production"
    /\ rolesGuardFile = "part_009"
    /\ strategyFile = "part_008"
    /\ middlewareFile = "logging"
    /\ strategySecret = SecretFor(nodeEnv)
    /\ now = Clock
    /\ pc = "handler"
    /\ route = RouteOf("emails.sendBatchEmails", TRUE, Arr(<<ADMIN, ORGANIZER>>))
    /\ token = NoToken
    /\ user = NoUser
    /\ verified = NoVerifyResult
    /\ guard = NoGuardResult
    /\ resolved = NoValidateResult
    /\ res = NoResponse
    /\ handlerRuns = 0
    /\ storeQueries = 0
    /\ storeAnswer = NoAnswer
    /\ nextCalls = 0
    /\ effects = 0
    /\ served = 0
    /\ SignupIdle
    /\ mailPc = "service"
    /\ mailVia = "EmailsService.sendBatchEmails"
    /\ emails \in { Arr(EmailDtos(n)) : n \in StoreCallSizes }
    /\ MailFields

\* The next sendBatchEmails call on the same service: fresh locals, the
\* emailStore as the earlier calls left it, and a clock that has moved on by
\* a millisecond or has not.
CallAgain ==
    /\ mailPc = "done"
    /\ served < MaxCalls - 1
    /\ served' = served + 1
    /\ mailPc' = "service"
    /\ emails' \in { Arr(EmailDtos(n)) : n \in StoreCallSizes }
    /\ mailNow' \in {mailNow, mailNow + 1}
    /\ batches' = <<>>
    /\ batchIndex' = 0
    /\ retryCount' = 0
    /\ success' = FALSE
    /\ sentEmails' = <<>>
    /\ failedBatches' = 0
    /\ attempts' = <<>>
    /\ pacingDelays' = 0
    /\ mailResult' = NoMailResult
    /\ UNCHANGED <<build, signup, pc, route, token, user, verified, guard, resolved, res,
                   handlerRuns, storeQueries, storeAnswer, nextCalls, effects,
                   mailVia, emailStore, providerAnswer>>

NextStore ==
    \/ StartBatches
    \/ AttemptBatch
    \/ NextBatch
    \/ ReturnSentEmails
    \/ CallAgain

SpecStore == InitStore /\ [][NextStore]_vars

\* C29: across the sendBatchEmails calls on one EmailsService every record put
\* in emailStore has an identifier that is not in the store yet: whenever a
\* call records messages as sent, the store grows by exactly their number.
C29_StoreIdsUnique ==
    [][ Len(sentEmails') > Len(sentEmails) =>
          Cardinality(emailStore') =
              Cardinality(emailStore) + (Len(sentEmails') - Len(sentEmails)) ]_vars

(***************************************************************************)
(* InterestedUsersService.create and ContactsService.create: a query for   *)
(* a row with the normalized email, then an insert.  Each await is a point *)
(* where another call may run.  The repository holds no table definition,  *)
(* so the table may or may not have a unique index on email.               *)
(***************************************************************************)
MaxCreators == 2

\* An email is the sequence of its characters.
RawEmails ==
    { <<"a", "@", "x">>, <<"A", "@", "x">>, <<" ", "a", "@", "x", " ">>,
      <<"b", "@", "x">> }

\* email.trim()
RECURSIVE TrimStart(_)
TrimStart(s) == IF s # <<>> /\ Head(s) = " " THEN TrimStart(Tail(s)) ELSE s
RECURSIVE TrimEnd(_)
TrimEnd(s) ==
    IF s # <<>> /\ s[Len(s)] = " " THEN TrimEnd(SubSeq(s, 1, Len(s) - 1)) ELSE s
Trim(s) == TrimEnd(TrimStart(s))

\* email.toLowerCase()
LowerChar(ch) == IF ch = "A" THEN "a" ELSE IF ch = "B" THEN "b" ELSE IF ch = "X" THEN "x" ELSE ch
ToLowerCase(s) == [i \in 1..Len(s) |-> LowerChar(s[i])]

\* normalizeEmail: email.trim().toLowerCase()
normalizeEmail(email) == ToLowerCase(Trim(email))

\* .eq('email', email): the rows of the table with that email.
RowsWithEmail(rows, email) == { i \in 1..Len(rows) : rows[i] = email }

\* .single(): data is the row when exactly one row matches, and null (with an
\* error) when none or several match.
SingleData(rows, email) == Cardinality(RowsWithEmail(rows, email)) = 1

\* What the existence check throws when it finds a row.
ConflictError(service) ==
    IF service = "InterestedUsersService" THEN "ConflictException"
    ELSE "DuplicateContactException"

\* What extractSingleResult throws when the insert answers with an error.
InsertError(service) ==
    IF service = "InterestedUsersService" THEN "NotFoundException"
    ELSE "InvalidContactDataException"

CreateCall(at, email, outcome) == [pc |-> at, email |-> email, outcome |-> outcome]

InitCreate ==
    /\ nodeEnv = "production"
    /\ rolesGuardFile = "part_009"
    /\ strategyFile = "part_008"
    /\ middlewareFile = "logging"
    /\ strategySecret = SecretFor(nodeEnv)
    /\ now = Clock
    /\ pc = "handler"
    /\ route = RouteOf("interestedUsers.create", FALSE, Undefined)
    /\ token = NoToken
    /\ user = NoUser
    /\ verified = NoVerifyResult
    /\ guard = NoGuardResult
    /\ resolved = NoValidateResult
    /\ res = NoResponse
    /\ handlerRuns = 0
    /\ storeQueries = 0
    /\ storeAnswer = NoAnswer
    /\ nextCalls = 0
    /\ effects = 0
    /\ served = 0
    /\ MailIdle
    /\ createService \in {"InterestedUsersService", "ContactsService"}
    /\ uniqueEmail \in BOOLEAN
    /\ tableRows \in {<<>>, <<normalizeEmail(<<"A", "@", "x">>)>>}
    /\ creates \in [1..MaxCreators -> { CreateCall("check", e, "none") : e \in RawEmails }]

\* The existence check of call c: select id where email = normalized email,
\* single(); a row found ends the call with the conflict error.
CheckExisting(c) ==
    /\ creates[c].pc = "check"
    /\ LET email == normalizeEmail(creates[c].email) IN
       creates' = [creates EXCEPT ![c] =
                     IF SingleData(tableRows, email)
                     THEN CreateCall("done", creates[c].email, ConflictError(createService))
                     ELSE CreateCall("insert", creates[c].email, "none")]
    /\ UNCHANGED <<pipeline, mail, tableRows, uniqueEmail, createService>>

\* The insert of call c: the row is added, unless a unique index rejects it
\* and extractSingleResult throws on the error.
InsertRow(c) ==
    /\ creates[c].pc = "insert"
    /\ LET email == normalizeEmail(creates[c].email) IN
       IF uniqueEmail /\ RowsWithEmail(tableRows, email) # {}
       THEN /\ creates' = [creates EXCEPT ![c] =
                             CreateCall("done", creates[c].email, InsertError(createService))]
            /\ tableRows' = tableRows
       ELSE /\ creates' = [creates EXCEPT ![c] =
                             CreateCall("done", creates[c].email, "created")]
            /\ tableRows' = Append(tableRows, email)
    /\ UNCHANGED <<pipeline, mail, uniqueEmail, createService>>

NextCreate ==
    \/ \E c \in 1..MaxCreators : CheckExisting(c)
    \/ \E c \in 1..MaxCreators : InsertRow(c)

SpecCreate == InitCreate /\ [][NextCreate]_vars

\* C30: after any interleaving of create calls whose emails normalize to the
\* same value, at most one of them has inserted a record, the table holds at
\* most one row with that email, and every other call has failed with the
\* conflict (duplicate) error.
C30_UniqueEmailUnderConcurrency ==
    (\A c \in 1..MaxCreators : creates[c].pc = "done") =>
        \A c \in 1..MaxCreators :
          LET email == normalizeEmail(creates[c].email)
              same == { d \in 1..MaxCreators : normalizeEmail(creates[d].email) = email }
          IN  /\ Cardinality({ d \in same : creates[d].outcome = "created" }) <= 1
              /\ Cardinality(RowsWithEmail(tableRows, email)) <= 1
              /\ (Cardinality(same) > 1 /\ creates[c].outcome # "created")
                   => creates[c].outcome = ConflictError(createService)

============================================================================
